---- MODULE Spec2Model ----
(***************************************************************************)
(* Model of the user-searching API: the GET /users handler of app.py and   *)
(* the CSV loader of seed.py, over the two tables users and locations.     *)
(*                                                                         *)
(* Text is a sequence of one-character strings, so that parsing is done    *)
(* by the model and not assumed.  A Python value that may be None is a     *)
(* record [ok, val] for numbers and the token None for text.               *)
(***************************************************************************)
EXTENDS Integers, Sequences, FiniteSets, TLC

VARIABLES
    User,        \* table users: a set of rows [id, name, age, gender]
    Location,    \* table locations: a sequence of rows, in insertion order
    pc,          \* "idle" | "done" (a request was answered) | "loop" (seeding)
    args,        \* request.args of the request being answered
    scan,        \* the order in which the database returned the users rows
    response,    \* what the handler returned
    csv,         \* rows of challenge/users.csv as the current / last run read it
    line,        \* index of the next CSV row to read
    user_ids,    \* seed.py: user ids already added in this run
    session,     \* db.session: pending (not yet flushed) objects
    runs,        \* number of seed runs finished
    same,        \* every seed run so far read the same CSV rows
    before,      \* the tables when the current / last seed run started
    outcome,     \* "none" | "committed" | "aborted": how the last run ended
    paging,      \* the filters and limit a client pages with
    pages        \* the result ids of the pages fetched so far

vars == <<User, Location, pc, args, scan, response, csv, line, user_ids,
          session, runs, same, before, outcome, paging, pages>>

(***************************************************************************)
(* Bounds of the model.                                                    *)
(***************************************************************************)
MaxUsers == 2
MaxRows == 2
MaxRuns == 2
MaxPages == 2

(***************************************************************************)
(* Python values.                                                          *)
(***************************************************************************)
None == <<"None">>
NoneNum == [ok |-> FALSE, val |-> 0]
Some(n) == [ok |-> TRUE, val |-> n]

Digits == {"0", "1", "2", "3", "4", "5", "6", "7", "8", "9"}

DigitVal(c) ==
    CASE c = "0" -> 0 [] c = "1" -> 1 [] c = "2" -> 2 [] c = "3" -> 3
      [] c = "4" -> 4 [] c = "5" -> 5 [] c = "6" -> 6 [] c = "7" -> 7
      [] c = "8" -> 8 [] c = "9" -> 9

RECURSIVE lstrip(_)
lstrip(s) == IF s # <<>> /\ Head(s) = " " THEN lstrip(Tail(s)) ELSE s

RECURSIVE rstrip(_)
rstrip(s) ==
    IF s # <<>> /\ s[Len(s)] = " " THEN rstrip(SubSeq(s, 1, Len(s) - 1)) ELSE s

strip(s) == rstrip(lstrip(s))

IsDigits(s) == s # <<>> /\ \A i \in 1..Len(s) : s[i] \in Digits

RECURSIVE NatVal(_)
NatVal(s) ==
    IF s = <<>> THEN 0
    ELSE 10 * NatVal(SubSeq(s, 1, Len(s) - 1)) + DigitVal(s[Len(s)])

\* Python's int(text): surrounding blanks, an optional sign, decimal digits;
\* anything else raises ValueError (ok = FALSE).
int(s) ==
    LET t == strip(s) IN
    IF IsDigits(t) THEN Some(NatVal(t))
    ELSE IF t # <<>> /\ Head(t) = "-" /\ IsDigits(Tail(t))
         THEN Some(0 - NatVal(Tail(t)))
         ELSE NoneNum

\* Python's float(text) on the literals the model's alphabet can write: the
\* same grammar as int; the value is kept as a whole number of degrees.
float(s) == int(s)

\* text.split(",", maxsplit)
RECURSIVE split(_, _)
split(s, maxsplit) ==
    IF maxsplit = 0 \/ \A i \in 1..Len(s) : s[i] # ","
    THEN <<s>>
    ELSE LET i == CHOOSE k \in 1..Len(s) :
                      s[k] = "," /\ \A j \in 1..(k - 1) : s[j] # ","
         IN <<SubSeq(s, 1, i - 1)>> \o split(SubSeq(s, i + 1, Len(s)), maxsplit - 1)

\* parse_lat_lng that reads the first two fields and drops the others
parse_lat_lng_first_two(origin) ==
    LET parts == split(origin, Len(origin)) IN
    IF Len(parts) < 2 THEN [lat |-> NoneNum, lng |-> NoneNum]
    ELSE LET lat == float(parts[1])
             lng == float(parts[2])
         IN IF lat.ok /\ lng.ok THEN [lat |-> lat, lng |-> lng]
            ELSE [lat |-> NoneNum, lng |-> NoneNum]

\* parse_lat_lng: (lat, lng), or (None, None) for any kind of invalid input
parse_lat_lng(origin) ==
    LET parts == split(origin, 2) IN
    IF Len(parts) # 2 THEN [lat |-> NoneNum, lng |-> NoneNum]
    ELSE LET lat == float(parts[1])
             lng == float(parts[2])
         IN IF lat.ok /\ lng.ok THEN [lat |-> lat, lng |-> lng]
            ELSE [lat |-> NoneNum, lng |-> NoneNum]

\* request.args.get(key): the text, or None when the key is not in the URL
args_get(a, key) == a[key]

\* request.args.get(key, default=d, type=int): d when absent or not an int
args_get_int(a, key, d) ==
    IF a[key] = None THEN d
    ELSE LET v == int(a[key]) IN IF v.ok THEN v ELSE d

(***************************************************************************)
(* The database.  earthdistance is outside the repository: the model only  *)
(* needs a distance between points.  Its places lie on a grid whose step   *)
(* is one mile, and distances are whole centimeters, so that the factor    *)
(* 1609.34 of app.py is the whole number 160934.                           *)
(***************************************************************************)
MILE_TO_METER == 160934

Abs(n) == IF n < 0 THEN 0 - n ELSE n

\* db.func.ll_to_earth(lat, lng)
ll_to_earth(lat, lng) == [latitude |-> lat, longitude |-> lng]

\* db.func.earth_distance(p1, p2)
earth_distance(p1, p2) ==
    (Abs(p1.latitude - p2.latitude) + Abs(p1.longitude - p2.longitude))
        * MILE_TO_METER

\* Location.location of a row
location_of(l) == ll_to_earth(l.latitude, l.longitude)

\* user.locations (relationship User <- Location, by user_id)
RECURSIVE locations_of(_, _)
locations_of(L, uid) ==
    IF L = <<>> THEN <<>>
    ELSE (IF Head(L).user_id = uid THEN <<Head(L)>> ELSE <<>>)
             \o locations_of(Tail(L), uid)

\* q.filter(...) on the rows of a query
RECURSIVE filter(_, _)
filter(q, keep) ==
    IF q = <<>> THEN <<>>
    ELSE (IF Head(q).id \in keep THEN <<Head(q)>> ELSE <<>>) \o filter(Tail(q), keep)

\* User.locations.any(earth_distance(Location.location, pt) < meters)
within(L, uid, pt, meters) ==
    \E i \in 1..Len(L) :
        L[i].user_id = uid /\ earth_distance(location_of(L[i]), pt) < meters

\* the offset without the limit
limit_offset_no_limit(q, limit, start) ==
    IF limit < 0 \/ start < 0 THEN [ok |-> FALSE, rows |-> <<>>]
    ELSE [ok |-> TRUE, rows |-> SubSeq(q, start + 1, Len(q))]

\* q.limit(limit).offset(start).all() on PostgreSQL: a negative LIMIT or
\* OFFSET is an error of the statement
limit_offset(q, limit, start) ==
    IF limit < 0 \/ start < 0 THEN [ok |-> FALSE, rows |-> <<>>]
    ELSE [ok |-> TRUE,
          rows |-> SubSeq(q, start + 1,
                          IF start + limit < Len(q) THEN start + limit ELSE Len(q))]

EmptyDict == [k \in {} |-> None]

\* one element of "features"
feature(l) ==
    [type |-> "feature",
     properties |-> [city |-> l.name],
     geometry |-> [type |-> "Point", coordinates |-> <<l.longitude, l.latitude>>]]

\* one element of "results"
user_json(L, u) ==
    LET ls == locations_of(L, u.id) IN
    [type |-> "user",
     locationHistory |-> [type |-> "FeatureCollection",
                          features |-> [i \in 1..Len(ls) |-> feature(ls[i])]],
     properties |-> [id |-> u.id, name |-> u.name, age |-> u.age,
                     gender |-> u.gender]]

\* `if gender:` / `if origin`: neither None nor the empty text
truthy(t) == t # None /\ t # <<>>

(***************************************************************************)
(* GET /users.  U and L are the tables, a the URL parameters, order the    *)
(* order in which the database hands out the users rows (the query has no  *)
(* ORDER BY).                                                              *)
(***************************************************************************)
gender_filter(U, gender) == {u.id : u \in {x \in U : x.gender = gender}}

min_age_filter(U, min_age) == {u.id : u \in {x \in U : x.age >= min_age}}

\* the comparison of min_age used for max_age
max_age_filter_ge(U, max_age) == {u.id : u \in {x \in U : x.age >= max_age}}

max_age_filter(U, max_age) == {u.id : u \in {x \in U : x.age <= max_age}}

geo_filter(U, L, lat, lng, dist) ==
    LET pt == ll_to_earth(lat, lng)
        meters == dist * MILE_TO_METER
    IN {u.id : u \in {x \in U : within(L, x.id, pt, meters)}}

\* the filter applied without looking at what parse_lat_lng returned
geo_applied_unchecked(origin, dist) == truthy(origin) /\ dist.ok

geo_applied(origin, dist) ==
    /\ truthy(origin)
    /\ dist.ok
    /\ parse_lat_lng(origin).lat.ok

users(U, L, a, order) ==
    LET gender == args_get(a, "gender")
        min_age == args_get_int(a, "min_age", NoneNum)
        max_age == args_get_int(a, "max_age", NoneNum)
        origin == args_get(a, "origin")
        dist == args_get_int(a, "dist", NoneNum)
        limit == args_get_int(a, "limit", Some(5))
        start == args_get_int(a, "start", Some(0))
        q0 == [i \in 1..Len(order) |-> CHOOSE u \in U : u.id = order[i]]
        q1 == IF truthy(gender) THEN filter(q0, gender_filter(U, gender)) ELSE q0
        m1 == IF truthy(gender) THEN ("gender" :> gender) ELSE EmptyDict
        q2 == IF min_age.ok THEN filter(q1, min_age_filter(U, min_age.val)) ELSE q1
        m2 == IF min_age.ok THEN ("min_age" :> min_age.val) @@ m1 ELSE m1
        q3 == IF max_age.ok THEN filter(q2, max_age_filter(U, max_age.val)) ELSE q2
        m3 == IF max_age.ok THEN ("max_age" :> max_age.val) @@ m2 ELSE m2
        geo == geo_applied(origin, dist)
        ll == parse_lat_lng(origin)
        q4 == IF geo
              THEN filter(q3, geo_filter(U, L, ll.lat.val, ll.lng.val, dist.val))
              ELSE q3
        m4 == IF geo THEN ("origin" :> origin) @@ ("dist" :> dist.val) @@ m3 ELSE m3
        total_results == Len(q4)
        page == limit_offset(q4, limit.val, start.val)
        metadata_query == ("limit" :> limit.val) @@ ("start" :> start.val) @@ m4
        results == [i \in 1..Len(page.rows) |-> user_json(L, page.rows[i])]
    IN IF ~page.ok THEN [status |-> 500]
       ELSE [status |-> 200,
             metadata |-> [path |-> "/users", query |-> metadata_query],
             total_results |-> total_results,
             num_results |-> Len(results),
             results |-> results]

(***************************************************************************)
(* Datasets and requests the model draws from.                             *)
(***************************************************************************)
PlaceA == [name |-> <<"A">>, latitude |-> 0, longitude |-> 0]
PlaceB == [name |-> <<"B">>, latitude |-> 0, longitude |-> 2]

\* a user without locations, users with one location, a user with two
Profiles ==
    << [name |-> <<"a", "n", "n">>, age |-> 2, gender |-> <<"f">>, places |-> <<>>],
       [name |-> <<"b", "o", "b">>, age |-> 3, gender |-> <<"m">>, places |-> <<PlaceA>>],
       [name |-> <<"c", "a", "t">>, age |-> 3, gender |-> <<"f">>, places |-> <<PlaceA, PlaceB>>] >>

\* the users rows of a dataset: user i has profile Profiles[f[i]]
UserRows(f) ==
    {[id |-> i, name |-> Profiles[f[i]].name, age |-> Profiles[f[i]].age,
      gender |-> Profiles[f[i]].gender] : i \in DOMAIN f}

\* the locations rows of users i..n of a dataset, ids counting from next
RECURSIVE LocationRows(_, _, _)
LocationRows(f, i, next) ==
    IF i > Len(f) THEN <<>>
    ELSE LET ps == Profiles[f[i]].places
             rows == [k \in 1..Len(ps) |->
                         [id |-> next + k - 1, user_id |-> i, name |-> ps[k].name,
                          latitude |-> ps[k].latitude,
                          longitude |-> ps[k].longitude]]
         IN rows \o LocationRows(f, i + 1, next + Len(ps))

\* datasets: up to MaxUsers users (ids 1..n)
Datasets ==
    UNION {{f \in [1..n -> 1..Len(Profiles)] :
               \A i \in 1..n, j \in 1..n : i <= j => f[i] <= f[j]} : n \in 0..MaxUsers}

Perms(S) ==
    {p \in [1..Cardinality(S) -> S] :
        \A i \in DOMAIN p, j \in DOMAIN p : p[i] = p[j] => i = j}

Params == {"gender", "min_age", "max_age", "origin", "dist", "limit", "start"}

NoArgs == [k \in Params |-> None]

GenderArgs == {None, <<>>, <<"f">>}
MinAgeArgs == {None, <<"x">>, <<"3">>}
MaxAgeArgs == {None, <<"2">>}
OriginArgs ==
    {None, <<>>, <<"0", ",", "0">>, <<"0", ",", " ", "2">>,
     <<"0", ",", "0", ",", "0">>, <<"x", ",", "0">>}
DistArgs == {None, <<"x">>, <<"0">>, <<"1">>}
LimitArgs == {None, <<"x">>, <<"0">>, <<"1">>, <<"-", "1">>}
StartArgs == {None, <<"x">>, <<"1">>, <<"-", "1">>}

Requests ==
    {[gender |-> g, min_age |-> mn, max_age |-> mx, origin |-> o, dist |-> d,
      limit |-> l, start |-> s] :
        g \in GenderArgs, mn \in MinAgeArgs, mx \in MaxAgeArgs, o \in OriginArgs,
        d \in DistArgs, l \in LimitArgs, s \in StartArgs}

NoResponse == [status |-> 0]
NoSession == [users |-> <<>>, locations |-> <<>>]
NoPaging == [args |-> NoArgs, limit |-> 0]

SeedIdle ==
    /\ csv = <<>> /\ line = 0 /\ user_ids = {} /\ session = NoSession
    /\ runs = 0 /\ same = TRUE /\ outcome = "none"

ServeIdle ==
    /\ pc = "idle" /\ args = NoArgs /\ scan = <<>> /\ response = NoResponse

(***************************************************************************)
(* Serving requests over a seeded database.                                *)
(***************************************************************************)
Init ==
    /\ \E f \in Datasets :
          /\ User = UserRows(f)
          /\ Location = LocationRows(f, 1, 1)
    /\ before = [users |-> User, locations |-> Location]
    /\ ServeIdle
    /\ SeedIdle
    /\ paging = NoPaging /\ pages = <<>>

\* one request: the whole handler
Request ==
    /\ pc = "idle"
    /\ \E a \in Requests, order \in Perms({u.id : u \in User}) :
          /\ args' = a
          /\ scan' = order
          /\ response' = users(User, Location, a, order)
    /\ pc' = "done"
    /\ UNCHANGED <<User, Location, csv, line, user_ids, session, runs, same,
                   before, outcome, paging, pages>>

\* the response is sent; the request's context is gone
Finish ==
    /\ pc = "done"
    /\ pc' = "idle"
    /\ args' = NoArgs /\ scan' = <<>> /\ response' = NoResponse
    /\ UNCHANGED <<User, Location, csv, line, user_ids, session, runs, same,
                   before, outcome, paging, pages>>

Next == Request \/ Finish

Spec == Init /\ [][Next]_vars

(***************************************************************************)
(* seed.py.  A CSV row is a record of texts; a row shorter than the header *)
(* has None in its last columns (csv.DictReader).  The numbers are parsed  *)
(* by the database when the session is flushed at commit.                  *)
(***************************************************************************)
Row1 ==
    [user_id |-> <<"1">>, user_name |-> <<"a", "n", "n">>, user_age |-> <<"2">>,
     user_gender |-> <<"f">>, last_location |-> <<"A">>, lat |-> <<"0">>,
     long |-> <<"0">>]
\* user 1 again, at another place and with other details
Row1b ==
    [user_id |-> <<"1">>, user_name |-> <<"b", "o", "b">>, user_age |-> <<"3">>,
     user_gender |-> <<"m">>, last_location |-> <<"B">>, lat |-> <<"0">>,
     long |-> <<"2">>]
Row2 ==
    [user_id |-> <<"2">>, user_name |-> <<"c", "a", "t">>, user_age |-> <<"3">>,
     user_gender |-> <<"f">>, last_location |-> <<"A">>, lat |-> <<"0">>,
     long |-> <<"0">>]
\* an age that is no number
RowBadAge ==
    [user_id |-> <<"2">>, user_name |-> <<"d", "e", "e">>, user_age |-> <<"x">>,
     user_gender |-> <<"f">>, last_location |-> <<"B">>, lat |-> <<"0">>,
     long |-> <<"2">>]
\* a row that ends before its last column
RowShort ==
    [user_id |-> <<"1">>, user_name |-> <<"a", "n", "n">>, user_age |-> <<"2">>,
     user_gender |-> <<"f">>, last_location |-> <<"A">>, lat |-> <<"0">>,
     long |-> None]

Rows == {Row1, Row1b, Row2, RowBadAge, RowShort}

CSVs == UNION {[1..n -> Rows] : n \in 0..MaxRows}

\* User(id=..., name=..., age=..., gender=...)
new_user(row) ==
    [id |-> row.user_id, name |-> row.user_name, age |-> row.user_age,
     gender |-> row.user_gender]

\* Location(user_id=..., name=..., location=ll_to_earth(lat, long))
new_location(row) ==
    [user_id |-> row.user_id, name |-> row.last_location,
     lat |-> row.lat, long |-> row.long]

\* the body of the loop without the dedup on user_ids
seed_row_no_dedup(row, ids, sess) ==
    [users |-> Append(sess.users, new_user(row)),
     locations |-> Append(sess.locations, new_location(row))]

\* the body of the loop over the CSV rows: what it adds to the session
seed_row(row, ids, sess) ==
    [users |-> IF row.user_id \notin ids
               THEN Append(sess.users, new_user(row))
               ELSE sess.users,
     locations |-> Append(sess.locations, new_location(row))]

\* INSERT INTO users accepts the pending user
user_insertable(u) ==
    /\ u.id # None /\ int(u.id).ok
    /\ u.name # None
    /\ u.age # None /\ int(u.age).ok
    /\ u.gender # None

\* INSERT INTO locations accepts the pending location (the foreign key apart)
location_insertable(l) ==
    /\ l.user_id # None /\ int(l.user_id).ok
    /\ l.name # None
    /\ l.lat # None /\ float(l.lat).ok
    /\ l.long # None /\ float(l.long).ok

user_row(u) ==
    [id |-> int(u.id).val, name |-> u.name, age |-> int(u.age).val,
     gender |-> u.gender]

location_row(l, id) ==
    [id |-> id, user_id |-> int(l.user_id).val, name |-> l.name,
     latitude |-> float(l.lat).val, longitude |-> float(l.long).val]

\* a flush that leaves out the objects the database refuses
flush_skip_refused(U, L, sess) ==
    LET good == {i \in 1..Len(sess.users) :
                    /\ user_insertable(sess.users[i])
                    /\ \A u \in U : u.id # int(sess.users[i].id).val}
        newU == U \cup {user_row(sess.users[i]) : i \in good}
        keep == SelectSeq(sess.locations,
                          LAMBDA l : /\ location_insertable(l)
                                     /\ \E u \in newU : u.id = int(l.user_id).val)
    IN [ok |-> TRUE,
        users |-> newU,
        locations |-> L \o [k \in 1..Len(keep) |-> location_row(keep[k], Len(L) + k)]]

\* a flush that passes over users whose id the table already holds
flush_existing_users_skipped(U, L, sess) ==
    LET ok == /\ \A i \in 1..Len(sess.users) : user_insertable(sess.users[i])
              /\ \A i \in 1..Len(sess.locations) :
                    location_insertable(sess.locations[i])
        fresh == {i \in 1..Len(sess.users) :
                     \A u \in U : u.id # int(sess.users[i].id).val}
    IN IF ~ok THEN [ok |-> FALSE, users |-> U, locations |-> L]
       ELSE [ok |-> TRUE,
             users |-> U \cup {user_row(sess.users[i]) : i \in fresh},
             locations |-> L \o [k \in 1..Len(sess.locations) |->
                                    location_row(sess.locations[k], Len(L) + k)]]

\* db.session.commit(): every pending object is inserted in one transaction,
\* users before locations; any refused insert rolls all of them back
flush(U, L, sess) ==
    LET usersOk ==
            /\ \A i \in 1..Len(sess.users) : user_insertable(sess.users[i])
            \* primary key of users
            /\ \A i \in 1..Len(sess.users) :
                  /\ \A u \in U : u.id # int(sess.users[i].id).val
                  /\ \A j \in 1..Len(sess.users) :
                        int(sess.users[j].id).val = int(sess.users[i].id).val
                            => i = j
        newU == U \cup {user_row(sess.users[i]) : i \in 1..Len(sess.users)}
        locationsOk ==
            \A i \in 1..Len(sess.locations) :
                /\ location_insertable(sess.locations[i])
                \* foreign key locations.user_id -> users.id
                /\ \E u \in newU : u.id = int(sess.locations[i].user_id).val
    IN IF usersOk /\ locationsOk
       THEN [ok |-> TRUE,
             users |-> newU,
             locations |-> L \o [k \in 1..Len(sess.locations) |->
                                    location_row(sess.locations[k], Len(L) + k)]]
       ELSE [ok |-> FALSE, users |-> U, locations |-> L]

InitSeed ==
    /\ User = {} /\ Location = <<>>
    /\ before = [users |-> {}, locations |-> <<>>]
    /\ ServeIdle
    /\ SeedIdle
    /\ paging = NoPaging /\ pages = <<>>

\* the script starts: create_all, the empty set of ids, the file is opened
SeedStart ==
    /\ pc = "idle" /\ runs < MaxRuns
    /\ \E file \in CSVs :
          /\ csv' = file
          /\ same' = (runs = 0 \/ (same /\ file = csv))
    /\ line' = 1
    /\ user_ids' = {}
    /\ session' = NoSession
    /\ before' = [users |-> User, locations |-> Location]
    /\ outcome' = "none"
    /\ pc' = "loop"
    /\ UNCHANGED <<User, Location, args, scan, response, runs, paging, pages>>

\* one turn of the loop over the CSV rows
SeedRow ==
    /\ pc = "loop" /\ line <= Len(csv)
    /\ session' = seed_row(csv[line], user_ids, session)
    /\ user_ids' = user_ids \cup {csv[line].user_id}
    /\ line' = line + 1
    /\ UNCHANGED <<User, Location, pc, args, scan, response, csv, runs, same,
                   before, outcome, paging, pages>>

\* after the loop: db.session.commit() succeeds
SeedCommit ==
    /\ pc = "loop" /\ line > Len(csv)
    /\ flush(User, Location, session).ok
    /\ User' = flush(User, Location, session).users
    /\ Location' = flush(User, Location, session).locations
    /\ outcome' = "committed"
    /\ session' = NoSession
    /\ runs' = runs + 1
    /\ pc' = "idle"
    /\ UNCHANGED <<args, scan, response, csv, line, user_ids, same, before,
                   paging, pages>>

\* after the loop: db.session.commit() raises, the script ends
SeedAbort ==
    /\ pc = "loop" /\ line > Len(csv)
    /\ ~flush(User, Location, session).ok
    /\ User' = flush(User, Location, session).users
    /\ Location' = flush(User, Location, session).locations
    /\ outcome' = "aborted"
    /\ session' = NoSession
    /\ runs' = runs + 1
    /\ pc' = "idle"
    /\ UNCHANGED <<args, scan, response, csv, line, user_ids, same, before,
                   paging, pages>>

NextSeed == SeedStart \/ SeedRow \/ SeedCommit \/ SeedAbort

SpecSeed == InitSeed /\ [][NextSeed]_vars

(***************************************************************************)
(* A client that pages: the same filters and limit, start = 0, L, 2L, ...  *)
(***************************************************************************)
DigitText == <<"0", "1", "2", "3", "4", "5", "6", "7", "8", "9">>

\* the decimal text of a natural number, as the client writes it in the URL
RECURSIVE Decimal(_)
Decimal(n) ==
    IF n < 10 THEN <<DigitText[n + 1]>>
    ELSE Decimal(n \div 10) \o <<DigitText[(n % 10) + 1]>>

PagingFilters ==
    {[NoArgs EXCEPT !.gender = g, !.max_age = mx] :
        g \in {None, <<"f">>}, mx \in {None, <<"2">>}}

PageLimits == {1, 2}

InitPaging ==
    /\ \E f \in Datasets :
          /\ User = UserRows(f)
          /\ Location = LocationRows(f, 1, 1)
    /\ before = [users |-> User, locations |-> Location]
    /\ ServeIdle
    /\ SeedIdle
    /\ \E a \in PagingFilters, l \in PageLimits : paging = [args |-> a, limit |-> l]
    /\ pages = <<>>

\* the request for the next page: the whole handler
PageRequest ==
    /\ pc = "idle" /\ Len(pages) < MaxPages
    /\ LET a == [paging.args EXCEPT !.limit = Decimal(paging.limit),
                                    !.start = Decimal(Len(pages) * paging.limit)]
       IN \E order \in Perms({u.id : u \in User}) :
             /\ args' = a
             /\ scan' = order
             /\ response' = users(User, Location, a, order)
             /\ pages' = Append(pages, users(User, Location, a, order))
    /\ pc' = "done"
    /\ UNCHANGED <<User, Location, csv, line, user_ids, session, runs, same,
                   before, outcome, paging>>

NextPaging == PageRequest \/ Finish

SpecPaging == InitPaging /\ [][NextPaging]_vars

(***************************************************************************)
(* What the claims speak of, stated on the request and the tables alone.   *)
(***************************************************************************)
Answered == pc = "done" /\ response.status = 200

\* the value of an int parameter, None when absent or not an int
IntArg(key) == IF args[key] = None THEN NoneNum ELSE int(args[key])

EffLimit == IF IntArg("limit").ok THEN IntArg("limit").val ELSE 5
EffStart == IF IntArg("start").ok THEN IntArg("start").val ELSE 0

\* origin is text of exactly two comma-separated numeric fields
OriginValid ==
    /\ args.origin # None
    /\ LET fields == split(args.origin, Len(args.origin)) IN
          /\ Len(fields) = 2
          /\ float(fields[1]).ok
          /\ float(fields[2]).ok

GeoValid == OriginValid /\ IntArg("dist").ok

OriginPoint ==
    LET fields == split(args.origin, Len(args.origin)) IN
    ll_to_earth(float(fields[1]).val, float(fields[2]).val)

\* some location of user u lies less than dist miles from the origin
NearStrict(u) ==
    \E i \in 1..Len(Location) :
        /\ Location[i].user_id = u.id
        /\ earth_distance(location_of(Location[i]), OriginPoint)
               < IntArg("dist").val * MILE_TO_METER

\* some location of user u lies at most dist miles from the origin
NearInclusive(u) ==
    \E i \in 1..Len(Location) :
        /\ Location[i].user_id = u.id
        /\ earth_distance(location_of(Location[i]), OriginPoint)
               <= IntArg("dist").val * MILE_TO_METER

NonGeoMatch(u) ==
    /\ (truthy(args.gender) => u.gender = args.gender)
    /\ (IntArg("min_age").ok => u.age >= IntArg("min_age").val)
    /\ (IntArg("max_age").ok => u.age <= IntArg("max_age").val)

\* the users that satisfy all applied predicates at once
Matched == {u \in User : NonGeoMatch(u) /\ (GeoValid => NearStrict(u))}

ResultIds == {response.results[i].properties.id : i \in 1..Len(response.results)}

\* C1: in every answer, every user of `results` satisfies all applied
\* predicates at once, and total_results is the number of users that do,
\* whatever limit and start are.
C1_Conjunction ==
    Answered =>
        /\ ResultIds \subseteq {u.id : u \in Matched}
        /\ response.total_results = Cardinality(Matched)

\* gender, min_age and the geospatial filter applied together: a user who
\* meets the gender filter but not min_age is left out
C1_Witness ==
    /\ Answered
    /\ truthy(args.gender) /\ IntArg("min_age").ok /\ GeoValid
    /\ Cardinality(User) = 2
    /\ response.total_results = 1
    /\ response.num_results = 1
    /\ \E u \in User : u.gender = args.gender /\ u.age < IntArg("min_age").val

\* C2: with a valid origin and an integer dist, a user passes the geospatial
\* filter iff one of their locations lies within dist miles of the origin,
\* a location at exactly dist miles included.
C2_WithinInclusive ==
    Answered /\ GeoValid =>
        response.total_results
            = Cardinality({u \in User : NonGeoMatch(u) /\ NearInclusive(u)})

\* C3: a request whose origin is absent, empty, not two fields or not
\* numeric, or whose dist is absent or not an integer, is answered exactly
\* as the same request without origin and dist; origin and dist appear in
\* metadata.query only for a valid origin with an integer dist.
C3_InvalidGeoIgnored ==
    pc = "done" =>
        /\ ~GeoValid =>
              response = users(User, Location,
                               [args EXCEPT !.origin = None, !.dist = None], scan)
        /\ response.status = 200
              /\ {"origin", "dist"} \cap DOMAIN response.metadata.query # {}
              => GeoValid

\* an origin of three fields with an integer dist filters nobody out
C3_Witness ==
    /\ Answered
    /\ args.origin = <<"0", ",", "0", ",", "0">>
    /\ args.dist = <<"0">>
    /\ args.gender = None /\ args.min_age = None /\ args.max_age = None
    /\ \E u \in User : locations_of(Location, u.id) = <<>>
    /\ response.total_results = Cardinality(User)
    /\ response.total_results > 0

\* C4: in every answer total_results >= num_results, num_results is the
\* length of results and is at most the effective limit.
C4_Counts ==
    Answered =>
        /\ response.num_results = Len(response.results)
        /\ response.total_results >= response.num_results
        /\ response.num_results <= EffLimit

\* a limit below the number of matches cuts the page
C4_Witness ==
    /\ Answered
    /\ args.limit = <<"1">>
    /\ response.total_results = 2
    /\ response.num_results = 1

\* C5: whatever the parameter values, the request is answered with a 200
\* envelope.
C5_NeverError == pc = "done" => response.status = 200

\* C6: the keys of metadata.query are limit and start plus the keys of the
\* filters applied, origin and dist together; each carries the value used.
C6_MetadataQuery ==
    Answered =>
        LET q == response.metadata.query IN
        /\ DOMAIN q =
               {"limit", "start"}
                   \cup (IF truthy(args.gender) THEN {"gender"} ELSE {})
                   \cup (IF IntArg("min_age").ok THEN {"min_age"} ELSE {})
                   \cup (IF IntArg("max_age").ok THEN {"max_age"} ELSE {})
                   \cup (IF GeoValid THEN {"origin", "dist"} ELSE {})
        /\ q.limit = EffLimit
        /\ q.start = EffStart
        /\ ("gender" \in DOMAIN q => q.gender = args.gender)
        /\ ("min_age" \in DOMAIN q => q.min_age = IntArg("min_age").val)
        /\ ("max_age" \in DOMAIN q => q.max_age = IntArg("max_age").val)
        /\ ("origin" \in DOMAIN q => q.origin = args.origin)
        /\ ("dist" \in DOMAIN q => q.dist = IntArg("dist").val)

\* /users?gender=f&limit=1&start=1 with min_age, origin rejected
C6_Witness ==
    /\ Answered
    /\ args.gender = <<"f">> /\ args.limit = <<"1">> /\ args.start = <<"1">>
    /\ args.min_age = <<"x">> /\ args.origin = <<"x", ",", "0">>
    /\ args.dist = <<"1">>
    /\ response.metadata.query = [gender |-> <<"f">>, limit |-> 1, start |-> 1]

(***************************************************************************)
(* The seed loader's claims, stated on the CSV rows and the tables.        *)
(***************************************************************************)
SeedDone == pc = "idle" /\ runs >= 1

Tables == [users |-> User, locations |-> Location]

MissingColumn(r) ==
    \/ r.user_id = None \/ r.user_name = None \/ r.user_age = None
    \/ r.user_gender = None \/ r.last_location = None
    \/ r.lat = None \/ r.long = None

\* a row with a missing column or a number that does not parse
RowMalformed(r) ==
    \/ MissingColumn(r)
    \/ ~int(r.user_id).ok \/ ~int(r.user_age).ok
    \/ ~float(r.lat).ok \/ ~float(r.long).ok

CsvWellFormed(c) == \A i \in 1..Len(c) : ~RowMalformed(c[i])

\* row i is the first of the file with its user_id
FirstOf(c, i) == \A j \in 1..(i - 1) : c[j].user_id # c[i].user_id

\* one User per distinct user_id, from the first row that has it
ExpectedUsers(c) ==
    {[id |-> int(c[i].user_id).val, name |-> c[i].user_name,
      age |-> int(c[i].user_age).val, gender |-> c[i].user_gender] :
        i \in {k \in 1..Len(c) : FirstOf(c, k)}}

\* one Location per row, in the order of the file
ExpectedLocations(c) ==
    [i \in 1..Len(c) |->
        [id |-> i, user_id |-> int(c[i].user_id).val, name |-> c[i].last_location,
         latitude |-> float(c[i].lat).val, longitude |-> float(c[i].long).val]]

\* C7, as stated: after any number of runs over the same CSV there is one
\* User per distinct user_id (first occurrence), and every run has added one
\* Location per CSV row.
C7_LocationsPerRun ==
    SeedDone /\ same /\ CsvWellFormed(csv) =>
        /\ User = ExpectedUsers(csv)
        /\ Len(Location) = runs * Len(csv)

\* C7, amended: after any number of runs over the same CSV there is one User
\* per distinct user_id (first occurrence) and one Location per CSV row; the
\* first run adds them, every later run over a CSV with rows aborts at
\* commit on the primary key of users and adds nothing.
C7_OnlyFirstRunCommits ==
    SeedDone /\ same /\ CsvWellFormed(csv) =>
        /\ User = ExpectedUsers(csv)
        /\ Location = ExpectedLocations(csv)
        /\ (runs >= 2 /\ csv # <<>> => outcome = "aborted")

\* the same two-user file seeded twice
C7_Witness ==
    /\ SeedDone /\ same /\ runs = 2
    /\ csv = <<Row1, Row2>>
    /\ outcome = "aborted"
    /\ Cardinality(User) = 2 /\ Len(Location) = 2

C9_AnyMalformedAborts ==
    SeedDone /\ ~CsvWellFormed(csv) => outcome = "aborted" /\ Tables = before

\* row i makes the commit fail: a missing column, a user_id, lat or long
\* that is no number, or an age that is no number in the first row of
\* its user_id (the user columns of later rows are never read)
RowRefused(c, i) ==
    \/ MissingColumn(c[i])
    \/ ~int(c[i].user_id).ok
    \/ ~float(c[i].lat).ok \/ ~float(c[i].long).ok
    \/ FirstOf(c, i) /\ ~int(c[i].user_age).ok

\* C9, amended: a run is all-or-nothing.  Nothing is persisted before the
\* commit; a row with a missing column, an unparsable user_id, lat or long,
\* or an unparsable age in the first row of its user_id aborts the run, and
\* an aborted run leaves the tables as they were; a committed run has added
\* a Location for every row.
C9_AllOrNothing ==
    /\ pc = "loop" => Tables = before
    /\ SeedDone =>
          /\ (\E i \in 1..Len(csv) : RowRefused(csv, i)) => outcome = "aborted"
          /\ outcome = "aborted" => Tables = before
          /\ outcome = "committed" =>
                Len(Location) = Len(before.locations) + Len(csv)

\* a new user's row followed by a short row, into a database that holds
\* another user: the short row alone makes the commit fail
C9_Witness ==
    /\ SeedDone /\ runs = 2
    /\ csv = <<Row1, RowShort>>
    /\ outcome = "aborted"
    /\ before.users # {} /\ \A u \in before.users : u.id = 2
    /\ Tables = before

(***************************************************************************)
(* Paging.                                                                 *)
(***************************************************************************)
PageIds(k) ==
    {pages[k].results[i].properties.id : i \in 1..Len(pages[k].results)}

\* the users that satisfy the filters the client pages with
PagingMatched ==
    {u \in User :
        /\ (truthy(paging.args.gender) => u.gender = paging.args.gender)
        /\ (int(paging.args.max_age).ok => u.age <= int(paging.args.max_age).val)}

\* C10: the pages start = 0, L, 2L, ... of one dataset, filters and limit L
\* hold pairwise disjoint sets of users, together all matched users once the
\* pages reach total_results, and page k holds
\* min(L, max(0, total_results - k L)) of them.
C10_PagesPartition ==
    /\ \A i \in 1..Len(pages), j \in 1..Len(pages) :
          i # j => PageIds(i) \cap PageIds(j) = {}
    /\ Len(pages) * paging.limit >= Cardinality(PagingMatched) =>
          UNION {PageIds(k) : k \in 1..Len(pages)} = {u.id : u \in PagingMatched}
    /\ \A k \in 1..Len(pages) :
          LET left == pages[k].total_results - (k - 1) * paging.limit IN
          pages[k].num_results =
              (IF left < 0 THEN 0 ELSE IF left < paging.limit THEN left
               ELSE paging.limit)

====
